---- MODULE Spec2Model ----
(***************************************************************************)
(* Model of the message pipeline of smol-agent: the streaming controller   *)
(* stream_chat (backend/src/routes/chat_streaming.py), the non-streaming   *)
(* and legacy handlers of backend/app.py, the conversation store           *)
(* (backend/src/database/conversation.py) and the code agent's             *)
(* language-clarification state (backend/src/agents/code_agent.py).        *)
(*                                                                         *)
(* Text is a sequence of one-character strings, so that split, strip and   *)
(* the response cleaner are computed character by character.               *)
(***************************************************************************)
EXTENDS Integers, Sequences, FiniteSets, TLC

\* ------------------------------------------------------------------------
\* Bounds
\* ------------------------------------------------------------------------
\* rows the messages table may hold before no new request is admitted
MaxMsgs == 3
\* conversations that may be created
MaxConv == 1

\* ------------------------------------------------------------------------
\* Text helpers (Python str methods used by the handlers)
\* ------------------------------------------------------------------------
WS == {" "}
Punct == {".", "!", "?"}

\* str.lower on the characters that occur in the modelled messages
lower(s) ==
  [i \in 1..Len(s) |->
     CASE s[i] = "C" -> "c"
       [] s[i] = "P" -> "p"
       [] s[i] = "A" -> "a"
       [] s[i] = "B" -> "b"
       [] OTHER -> s[i]]

\* `k in s` for strings
Contains(s, k) ==
  \E i \in 1..(Len(s) - Len(k) + 1) : SubSeq(s, i, i + Len(k) - 1) = k

\* last index of the run of characters of S that starts at i (i-1 if none)
RunEnd(s, i, S) ==
  CHOOSE k \in (i - 1)..Len(s) :
    /\ \A j \in i..k : s[j] \in S
    /\ (k = Len(s) \/ s[k + 1] \notin S)

\* str.strip()
strip(s) ==
  LET nonws == {i \in 1..Len(s) : s[i] \notin WS}
  IN  IF nonws = {} THEN <<>>
      ELSE SubSeq(s, CHOOSE i \in nonws : \A j \in nonws : i <= j,
                     CHOOSE i \in nonws : \A j \in nonws : i >= j)

RECURSIVE SplitFrom(_, _, _)
SplitFrom(s, i, cur) ==
  IF i > Len(s) THEN (IF cur = <<>> THEN <<>> ELSE <<cur>>)
  ELSE IF s[i] \in WS
       THEN (IF cur = <<>> THEN <<>> ELSE <<cur>>) \o SplitFrom(s, i + 1, <<>>)
       ELSE SplitFrom(s, i + 1, Append(cur, s[i]))

\* str.split() without arguments: the maximal runs of non-whitespace
split(s) == SplitFrom(s, 1, <<>>)

RECURSIVE Join(_, _)
\* sep.join(parts)
Join(parts, sep) ==
  IF parts = <<>> THEN <<>>
  ELSE IF Len(parts) = 1 THEN parts[1]
  ELSE parts[1] \o sep \o Join(Tail(parts), sep)

RECURSIVE Concat(_)
\* ''.join(parts)
Concat(parts) ==
  IF parts = <<>> THEN <<>> ELSE parts[1] \o Concat(Tail(parts))

RECURSIVE ReSplit(_, _, _)
\* re.split(r'([.!?]+\s+)', s): the pieces between the separators, with the
\* separators themselves (capturing group) kept in the list
ReSplit(s, i, cur) ==
  IF i > Len(s) THEN <<cur>>
  ELSE IF s[i] \in Punct
       THEN LET k == RunEnd(s, i, Punct)
                l == RunEnd(s, k + 1, WS)
            IN  IF l > k
                THEN <<cur, SubSeq(s, i, l)>> \o ReSplit(s, l + 1, <<>>)
                ELSE ReSplit(s, k + 1, cur \o SubSeq(s, i, k))
       ELSE ReSplit(s, i + 1, Append(cur, s[i]))

\* re.sub(r'[^\w\s]', '', sentence.lower())
Normalized(sentence) ==
  SelectSeq(lower(sentence), LAMBDA c : c \notin Punct)

RECURSIVE Dedup(_, _, _)
\* the loop over sentences: keep the first sentence of each normalized form
Dedup(sentences, seen, out) ==
  IF sentences = <<>> THEN out
  ELSE LET n == Normalized(sentences[1])
       IN  IF n # <<>> /\ n \notin seen
           THEN Dedup(Tail(sentences), seen \cup {n}, Append(out, sentences[1]))
           ELSE Dedup(Tail(sentences), seen, out)

\* clean_llm_response.  The prefix removals and the "Human:" truncation need a
\* literal ':' or '?' followed by fixed words; the modelled responses are
\* written over the letters a, b, the blank and '.', on which those
\* substitutions match nothing, so what remains is the sentence de-duplication,
\* the re-join with single blanks and the final strip.
clean_llm_response(text) ==
  LET pieces    == ReSplit(text, 1, <<>>)
      stripped  == [i \in 1..Len(pieces) |-> strip(pieces[i])]
      sentences == SelectSeq(stripped, LAMBDA p : p # <<>>)
  IN  strip(Join(Dedup(sentences, {}, <<>>), <<" ">>))

\* ------------------------------------------------------------------------
\* Inputs
\* ------------------------------------------------------------------------
Users == {1, 2}

\* request slots of the streaming endpoint; Spec serves one stream after the
\* other in slot 1, SpecConc lets both slots run together
Reqs == {1, 2}
Solo == {1}

\* message texts: empty, a plain greeting, a code request
MsgEmpty == <<>>
MsgHi    == <<"h", "i">>
MsgCode  == <<"C", "o", "d", "e">>
Messages == {MsgEmpty, MsgHi, MsgCode}

\* the texts between which the streaming controller tells a difference: one
\* without and one with a word of _generate_thinking_steps
StreamMessages == {MsgEmpty, MsgCode}

\* what the language model may return
RawResponses ==
  { <<>>,
    <<".">>,
    <<"a", " ", "b">>,
    <<"a", ".", " ", "a", " ", " ", "b">> }

\* str(e) of the exceptions the collaborators raise
LLMError == <<"llm unavailable">>
DBError  == <<"database is locked">>
None     == <<>>
\* no model call
NoGeneration == [task |-> None, language |-> None]
\* no (user, conversation) key
NoKey == <<0, 0>>
\* no pending task was taken up
NoConsumption == [by |-> NoKey, from |-> NoKey, task |-> None]
\* no routing call
NoRouting == [method |-> "", response |-> None, result |-> "",
              before |-> <<>>]
\* the keys of the rate limiter
LimitKeys == {"login", "register"}
\* no call of check_rate_limit
NoCheck == [key |-> "", at |-> 0, result |-> FALSE]
\* the handler called neither update_title nor delete_conversation
NoCall == [method |-> "", conversation_id |-> 0, user_id |-> 0,
           result |-> FALSE]

\* ------------------------------------------------------------------------
\* _generate_thinking_steps
\* ------------------------------------------------------------------------
CodeWords ==
  { <<"c","o","d","e">>, <<"f","u","n","c","t","i","o","n">>,
    <<"s","c","r","i","p","t">>, <<"p","r","o","g","r","a","m">>,
    <<"a","l","g","o","r","i","t","h","m">> }
MathWords ==
  { <<"c","a","l","c","u","l","a","t","e">>, <<"c","o","m","p","u","t","e">>,
    <<"m","a","t","h">>, <<"s","o","l","v","e">>,
    <<"e","q","u","a","t","i","o","n">> }
ExplainWords ==
  { <<"e","x","p","l","a","i","n">>, <<"w","h","a","t"," ","i","s">>,
    <<"h","o","w"," ","d","o","e","s">>, <<"w","h","y">>,
    <<"t","e","a","c","h">>, <<"l","e","a","r","n">> }

_generate_thinking_steps(message) ==
  LET msg_lower == lower(message)
      any(words) == \E w \in words : Contains(msg_lower, w)
  IN  IF any(CodeWords)
      THEN << <<"Analyzing code requirements">>,
              <<"Planning implementation approach">>,
              <<"Preparing code solution">> >>
      ELSE IF any(MathWords)
      THEN << <<"Analyzing mathematical problem">>,
              <<"Calculating solution">> >>
      ELSE IF any(ExplainWords)
      THEN << <<"Understanding the question">>,
              <<"Gathering relevant information">>,
              <<"Structuring explanation">> >>
      ELSE IF Len(message) > 100
      THEN << <<"Analyzing query components">>,
              <<"Organizing information">>,
              <<"Preparing comprehensive response">> >>
      ELSE << <<"Processing your question">>,
              <<"Formulating response">> >>

\* ------------------------------------------------------------------------
\* State
\* ------------------------------------------------------------------------
VARIABLES
  conversations,     \* rows of table conversations, in insertion order
  conv_seq,          \* AUTOINCREMENT counter of conversations
  messages,          \* rows of table messages, in insertion order
  msg_seq,           \* AUTOINCREMENT counter of messages
  pc,                \* per request: position of generate()
  user_id,           \* per request: request.user_id
  message,           \* per request: data['message']
  conversation_id,   \* per request: data['conversation_id'], 0 when absent
  given_id,          \* per request: the conversation_id the request named
  new_created,
  frames,            \* per request: the frames yielded so far
  thinking_steps,
  step,              \* per request: loop index i of the thinking steps
  words,             \* per request: the words not yet streamed
  response_content,
  full_response,     \* per request: result slot shared with the thread
  response_ready,    \* per request: threading.Event
  response_error,    \* per request: error slot shared with the thread
  exc,               \* per request: the exception being handled
  lastrowid,         \* per request: cursor.lastrowid of the messages cursor
  gpc,               \* per request: position of the thread generate_response
  http,              \* the last response of a non-streaming handler
  call,              \* update_title / delete_conversation as called by the
                     \* non-streaming handler that ran last, with its result
  pending_language_request,  \* CodeAgent.pending_language_request
  pending_task,      \* CodeAgent.pending_task
  generation,        \* the model call made by the handler that ran last
  agent_result,      \* what the agent method or handler that ran last returned
  handled,           \* the message handle_legacy_request was last called with
  pending_key,       \* the (user, conversation) whose request left the task pending
  consumed,          \* the last pending task taken up: by which key, left by which
  conversation_history,  \* BaseAgent.conversation_history of the routing agent
  routed,            \* the last call of route_request / detect_language
  now,               \* the wall clock, in seconds
  msg_log,           \* id and created_at of the rows of one conversation
  fetched,           \* the ids the last get_messages returned, in its order
  rate_limit_store,  \* rate_limit_store: per key the times recorded
  granted,           \* per key the times of the calls that returned True
  allowed            \* the last call of check_rate_limit and what it returned

dbvars  == <<conversations, conv_seq, messages, msg_seq>>
reqvars == <<pc, user_id, message, conversation_id, given_id, new_created,
             frames, thinking_steps, step, words, response_content, exc,
             lastrowid>>
genvars == <<full_response, response_ready, response_error, gpc>>
agentvars == <<pending_language_request, pending_task, generation,
               agent_result, handled, pending_key, consumed>>
routervars == <<conversation_history, routed>>
ordervars  == <<msg_log, fetched>>
limitvars  == <<rate_limit_store, granted, allowed>>
auxvars    == <<routervars, now, ordervars, limitvars>>
vars    == <<dbvars, reqvars, genvars, http, call, agentvars, auxvars>>

\* ------------------------------------------------------------------------
\* Store
\* ------------------------------------------------------------------------
\* CURRENT_TIMESTAMP and datetime('now'): the wall clock in whole seconds
CURRENT_TIMESTAMP == now

ConvRow(id, owner, title, at) ==
  [id |-> id, user_id |-> owner, title |-> title, updated_at |-> at]

\* a row of messages; req is the streaming request that inserted it (0 for
\* the other handlers) and by the authenticated user of that request
MsgRow(id, conv, role, content, req, by) ==
  [id |-> id, conversation_id |-> conv, role |-> role, content |-> content,
   req |-> req, by |-> by, created_at |-> CURRENT_TIMESTAMP]

\* SELECT * FROM conversations WHERE id = ?   (0 stands for None)
get_by_id(id) ==
  IF \E i \in 1..Len(conversations) : conversations[i].id = id
  THEN conversations[CHOOSE i \in 1..Len(conversations) :
                       conversations[i].id = id]
  ELSE ConvRow(0, 0, "", 0)

Frame(type, content) == [type |-> type, content |-> content]

Emit(r, type, content) ==
  frames' = [frames EXCEPT ![r] = Append(@, Frame(type, content))]

\* ------------------------------------------------------------------------
\* stream_chat
\* ------------------------------------------------------------------------
Init ==
  /\ conversations = <<>>
  /\ conv_seq = 0
  /\ messages = <<>>
  /\ msg_seq = 0
  /\ pc = [r \in Reqs |-> "idle"]
  /\ user_id = [r \in Reqs |-> 0]
  /\ message = [r \in Reqs |-> <<>>]
  /\ conversation_id = [r \in Reqs |-> 0]
  /\ given_id = [r \in Reqs |-> 0]
  /\ new_created = [r \in Reqs |-> FALSE]
  /\ frames = [r \in Reqs |-> <<>>]
  /\ thinking_steps = [r \in Reqs |-> <<>>]
  /\ step = [r \in Reqs |-> 0]
  /\ words = [r \in Reqs |-> <<>>]
  /\ response_content = [r \in Reqs |-> <<>>]
  /\ full_response = [r \in Reqs |-> <<>>]
  /\ response_ready = [r \in Reqs |-> FALSE]
  /\ response_error = [r \in Reqs |-> None]
  /\ exc = [r \in Reqs |-> None]
  /\ lastrowid = [r \in Reqs |-> 0]
  /\ gpc = [r \in Reqs |-> "none"]
  /\ http = [endpoint |-> "", status |-> 0, body |-> <<>>]
  /\ call = NoCall
  /\ pending_language_request = FALSE
  /\ pending_task = None
  /\ generation = NoGeneration
  /\ agent_result = "none"
  /\ handled = [message |-> None, pending |-> None]
  /\ pending_key = NoKey
  /\ consumed = NoConsumption
  /\ conversation_history = <<>>
  /\ routed = NoRouting
  /\ now = 0
  /\ msg_log = <<>>
  /\ fetched = <<>>
  /\ rate_limit_store = [k \in LimitKeys |-> <<>>]
  /\ granted = [k \in LimitKeys |-> <<>>]
  /\ allowed = NoCheck

\* A request reaches stream_chat: the handler reads the body and returns the
\* Response over generate(), whose locals start as in lines 126-130.
StreamChat(r, u, m, c) ==
  /\ pc[r] \in {"idle", "closed"}
  /\ Len(messages) + 2 <= MaxMsgs
  /\ c = 0 => conv_seq < MaxConv
  /\ pc' = [pc EXCEPT ![r] = "create"]
  /\ user_id' = [user_id EXCEPT ![r] = u]
  /\ message' = [message EXCEPT ![r] = m]
  /\ conversation_id' = [conversation_id EXCEPT ![r] = c]
  /\ given_id' = [given_id EXCEPT ![r] = c]
  /\ new_created' = [new_created EXCEPT ![r] = FALSE]
  /\ frames' = [frames EXCEPT ![r] = <<>>]
  /\ thinking_steps' = [thinking_steps EXCEPT ![r] = <<>>]
  /\ step' = [step EXCEPT ![r] = 0]
  /\ words' = [words EXCEPT ![r] = <<>>]
  /\ response_content' = [response_content EXCEPT ![r] = <<>>]
  /\ full_response' = [full_response EXCEPT ![r] = <<>>]
  /\ response_ready' = [response_ready EXCEPT ![r] = FALSE]
  /\ response_error' = [response_error EXCEPT ![r] = None]
  /\ exc' = [exc EXCEPT ![r] = None]
  /\ lastrowid' = [lastrowid EXCEPT ![r] = 0]
  /\ gpc' = [gpc EXCEPT ![r] = "none"]
  /\ UNCHANGED dbvars
  /\ UNCHANGED <<http, call, agentvars, auxvars>>

\* an exception raised inside the try block of generate()
Raise(r, e) ==
  /\ pc' = [pc EXCEPT ![r] = "except"]
  /\ exc' = [exc EXCEPT ![r] = e]

\* lines 135-146: create the conversation when none was named
CreateConversation(r) ==
  /\ pc[r] = "create"
  /\ IF conversation_id[r] = 0
     THEN \/ /\ conv_seq' = conv_seq + 1
             /\ conversations' = Append(conversations,
                  ConvRow(conv_seq + 1, user_id[r], "New Conversation",
                          CURRENT_TIMESTAMP))
             /\ conversation_id' = [conversation_id EXCEPT ![r] = conv_seq + 1]
             /\ new_created' = [new_created EXCEPT ![r] = TRUE]
             /\ Emit(r, "metadata", <<conv_seq + 1>>)
             /\ pc' = [pc EXCEPT ![r] = "add_user"]
             /\ UNCHANGED exc
          \/ /\ Raise(r, DBError)
             /\ UNCHANGED <<conv_seq, conversations, conversation_id,
                            new_created, frames>>
     ELSE /\ pc' = [pc EXCEPT ![r] = "add_user"]
          /\ UNCHANGED <<conv_seq, conversations, conversation_id,
                         new_created, frames, exc>>
  /\ UNCHANGED <<messages, msg_seq, user_id, message, given_id,
                 thinking_steps, step, words, response_content, genvars>>
  /\ UNCHANGED <<lastrowid, http, call, agentvars, auxvars>>

\* lines 148-198: insert the user message and start the generation thread
AddUserMessage(r) ==
  /\ pc[r] = "add_user"
  /\ \/ /\ msg_seq' = msg_seq + 1
        /\ messages' = Append(messages,
             MsgRow(msg_seq + 1, conversation_id[r], "user", message[r],
                    r, user_id[r]))
        /\ lastrowid' = [lastrowid EXCEPT ![r] = msg_seq + 1]
        /\ gpc' = [gpc EXCEPT ![r] = "invoke"]
        /\ pc' = [pc EXCEPT ![r] = "thinking_start"]
        /\ UNCHANGED exc
     \/ /\ Raise(r, DBError)
        /\ UNCHANGED <<messages, msg_seq, gpc, lastrowid>>
  /\ UNCHANGED <<conversations, conv_seq, user_id, message, conversation_id,
                 given_id, new_created, frames, thinking_steps, step, words,
                 response_content, full_response, response_ready,
                 response_error>>
  /\ UNCHANGED <<http, call, agentvars, auxvars>>

\* mutant of ThinkingStart: the thinking indicator is not emitted
ThinkingStart_silent(r) ==
  /\ pc[r] = "thinking_start"
  /\ UNCHANGED frames
  /\ thinking_steps' = [thinking_steps EXCEPT ![r] =
                          _generate_thinking_steps(message[r])]
  /\ step' = [step EXCEPT ![r] = 0]
  /\ pc' = [pc EXCEPT ![r] = "steps"]
  /\ UNCHANGED <<dbvars, user_id, message, conversation_id, given_id,
                 new_created, words, response_content, exc, genvars>>
  /\ UNCHANGED <<lastrowid, http, call, agentvars, auxvars>>

\* mutant of ThinkingStart: the indicator is held back until the response is ready
ThinkingStart_afterready(r) ==
  /\ pc[r] = "thinking_start"
  /\ response_ready[r]
  /\ Emit(r, "thinking_start", <<>>)
  /\ thinking_steps' = [thinking_steps EXCEPT ![r] =
                          _generate_thinking_steps(message[r])]
  /\ step' = [step EXCEPT ![r] = 0]
  /\ pc' = [pc EXCEPT ![r] = "steps"]
  /\ UNCHANGED <<dbvars, user_id, message, conversation_id, given_id,
                 new_created, words, response_content, exc, genvars>>
  /\ UNCHANGED <<lastrowid, http, call, agentvars, auxvars>>

\* lines 200-207: the thinking indicator, emitted at once
ThinkingStart(r) ==
  /\ pc[r] = "thinking_start"
  /\ Emit(r, "thinking_start", <<>>)
  /\ thinking_steps' = [thinking_steps EXCEPT ![r] =
                          _generate_thinking_steps(message[r])]
  /\ step' = [step EXCEPT ![r] = 0]
  /\ pc' = [pc EXCEPT ![r] = "steps"]
  /\ UNCHANGED <<dbvars, user_id, message, conversation_id, given_id,
                 new_created, words, response_content, exc, genvars>>
  /\ UNCHANGED <<lastrowid, http, call, agentvars, auxvars>>

\* lines 211-217: one iteration of the loop over the thinking steps
ThinkingStep(r) ==
  /\ pc[r] = "steps"
  /\ step' = [step EXCEPT ![r] = @ + 1]
  /\ Emit(r, "thinking_step", thinking_steps[r][step[r] + 1])
  /\ pc' = [pc EXCEPT ![r] =
              IF response_ready[r] \/ step[r] + 1 = Len(thinking_steps[r])
              THEN "wait" ELSE "steps"]
  /\ UNCHANGED <<dbvars, user_id, message, conversation_id, given_id,
                 new_created, thinking_steps, words, response_content, exc,
                 genvars>>
  /\ UNCHANGED <<lastrowid, http, call, agentvars, auxvars>>

\* mutant of WaitResponse: the wait has no timeout and returns only when the event is set
WaitResponse_blocking(r) ==
  /\ pc[r] = "wait"
  /\ response_ready[r]
  /\ IF response_error[r] # None
     THEN /\ Raise(r, response_error[r])
          /\ UNCHANGED frames
     ELSE /\ Emit(r, "thinking_complete", <<>>)
          /\ pc' = [pc EXCEPT ![r] = "split"]
          /\ UNCHANGED exc
  /\ UNCHANGED <<dbvars, user_id, message, conversation_id, given_id,
                 new_created, thinking_steps, step, words, response_content,
                 genvars>>
  /\ UNCHANGED <<lastrowid, http, call, agentvars, auxvars>>

\* mutant of WaitResponse: the error is reported in a frame and the stream carries on
WaitResponse_continue(r) ==
  /\ pc[r] = "wait"
  /\ IF response_error[r] # None
     THEN /\ frames' = [frames EXCEPT ![r] =
                          @ \o <<Frame("error", response_error[r]),
                                 Frame("thinking_complete", <<>>)>>]
          /\ pc' = [pc EXCEPT ![r] = "split"]
          /\ UNCHANGED exc
     ELSE /\ Emit(r, "thinking_complete", <<>>)
          /\ pc' = [pc EXCEPT ![r] = "split"]
          /\ UNCHANGED exc
  /\ UNCHANGED <<dbvars, user_id, message, conversation_id, given_id,
                 new_created, thinking_steps, step, words, response_content,
                 genvars>>
  /\ UNCHANGED <<lastrowid, http, call, agentvars, auxvars>>

\* lines 219-227: response_ready.wait(timeout=10) returns when the event is
\* set or when the ten seconds are over, whichever comes first
WaitResponse(r) ==
  /\ pc[r] = "wait"
  /\ IF response_error[r] # None
     THEN /\ Raise(r, response_error[r])
          /\ UNCHANGED frames
     ELSE /\ Emit(r, "thinking_complete", <<>>)
          /\ pc' = [pc EXCEPT ![r] = "split"]
          /\ UNCHANGED exc
  /\ UNCHANGED <<dbvars, user_id, message, conversation_id, given_id,
                 new_created, thinking_steps, step, words, response_content,
                 genvars>>
  /\ UNCHANGED <<lastrowid, http, call, agentvars, auxvars>>

\* line 230: words = full_response.split()
SplitResponse(r) ==
  /\ pc[r] = "split"
  /\ words' = [words EXCEPT ![r] = split(full_response[r])]
  /\ pc' = [pc EXCEPT ![r] =
              IF split(full_response[r]) = <<>> THEN "save" ELSE "stream"]
  /\ UNCHANGED <<dbvars, user_id, message, conversation_id, given_id,
                 new_created, frames, thinking_steps, step, response_content,
                 exc, genvars>>
  /\ UNCHANGED <<lastrowid, http, call, agentvars, auxvars>>

\* mutant of StreamWord: the accumulated text leaves out the blank sent with each word
StreamWord_nosep(r) ==
  /\ pc[r] = "stream"
  /\ response_content' = [response_content EXCEPT ![r] =
                            @ \o words[r][1]]
  /\ Emit(r, "response", words[r][1] \o <<" ">>)
  /\ words' = [words EXCEPT ![r] = Tail(@)]
  /\ pc' = [pc EXCEPT ![r] = IF Len(words[r]) = 1 THEN "save" ELSE "stream"]
  /\ UNCHANGED <<dbvars, user_id, message, conversation_id, given_id,
                 new_created, thinking_steps, step, exc, genvars>>
  /\ UNCHANGED <<lastrowid, http, call, agentvars, auxvars>>

\* lines 231-234: one iteration of the loop over the words
StreamWord(r) ==
  /\ pc[r] = "stream"
  /\ response_content' = [response_content EXCEPT ![r] =
                            @ \o words[r][1] \o <<" ">>]
  /\ Emit(r, "response", words[r][1] \o <<" ">>)
  /\ words' = [words EXCEPT ![r] = Tail(@)]
  /\ pc' = [pc EXCEPT ![r] = IF Len(words[r]) = 1 THEN "save" ELSE "stream"]
  /\ UNCHANGED <<dbvars, user_id, message, conversation_id, given_id,
                 new_created, thinking_steps, step, exc, genvars>>
  /\ UNCHANGED <<lastrowid, http, call, agentvars, auxvars>>

\* mutant of SaveResponse: a metadata frame follows the saved response
SaveResponse_metadata(r) ==
  /\ pc[r] = "save"
  /\ IF strip(response_content[r]) # <<>>
     THEN \/ /\ msg_seq' = msg_seq + 1
             /\ messages' = Append(messages,
                  MsgRow(msg_seq + 1, conversation_id[r], "assistant",
                         strip(response_content[r]), r, user_id[r]))
             /\ lastrowid' = [lastrowid EXCEPT ![r] = msg_seq + 1]
             /\ pc' = [pc EXCEPT ![r] = "finally"]
             /\ Emit(r, "metadata", <<conversation_id[r]>>)
             /\ UNCHANGED exc
          \/ /\ Raise(r, DBError)
             /\ UNCHANGED <<messages, msg_seq, lastrowid, frames>>
     ELSE /\ pc' = [pc EXCEPT ![r] = "finally"]
          /\ UNCHANGED <<messages, msg_seq, exc, lastrowid, frames>>
  /\ UNCHANGED <<conversations, conv_seq, user_id, message, conversation_id,
                 given_id, new_created, thinking_steps, step, words,
                 response_content, genvars>>
  /\ UNCHANGED <<http, call, agentvars, auxvars>>

\* lines 236-243: save the assistant response
SaveResponse(r) ==
  /\ pc[r] = "save"
  /\ IF strip(response_content[r]) # <<>>
     THEN \/ /\ msg_seq' = msg_seq + 1
             /\ messages' = Append(messages,
                  MsgRow(msg_seq + 1, conversation_id[r], "assistant",
                         strip(response_content[r]), r, user_id[r]))
             /\ lastrowid' = [lastrowid EXCEPT ![r] = msg_seq + 1]
             /\ pc' = [pc EXCEPT ![r] = "finally"]
             /\ UNCHANGED exc
          \/ /\ Raise(r, DBError)
             /\ UNCHANGED <<messages, msg_seq, lastrowid>>
     ELSE /\ pc' = [pc EXCEPT ![r] = "finally"]
          /\ UNCHANGED <<messages, msg_seq, exc, lastrowid>>
  /\ UNCHANGED <<conversations, conv_seq, user_id, message, conversation_id,
                 given_id, new_created, frames, thinking_steps, step, words,
                 response_content, genvars>>
  /\ UNCHANGED <<http, call, agentvars, auxvars>>

\* mutant of StreamError: the except clause swallows the exception without a frame
StreamError_silent(r) ==
  /\ pc[r] = "except"
  /\ UNCHANGED frames
  /\ pc' = [pc EXCEPT ![r] = "finally"]
  /\ UNCHANGED <<dbvars, user_id, message, conversation_id, given_id,
                 new_created, thinking_steps, step, words, response_content,
                 exc, genvars>>
  /\ UNCHANGED <<lastrowid, http, call, agentvars, auxvars>>

\* lines 245-249: the except clause
StreamError(r) ==
  /\ pc[r] = "except"
  /\ Emit(r, "error", exc[r])
  /\ pc' = [pc EXCEPT ![r] = "finally"]
  /\ UNCHANGED <<dbvars, user_id, message, conversation_id, given_id,
                 new_created, thinking_steps, step, words, response_content,
                 exc, genvars>>
  /\ UNCHANGED <<lastrowid, http, call, agentvars, auxvars>>

\* lines 250-251: the finally clause
StreamDone(r) ==
  /\ pc[r] = "finally"
  /\ Emit(r, "done", <<>>)
  /\ pc' = [pc EXCEPT ![r] = "closed"]
  /\ UNCHANGED <<dbvars, user_id, message, conversation_id, given_id,
                 new_created, thinking_steps, step, words, response_content,
                 exc, genvars>>
  /\ UNCHANGED <<lastrowid, http, call, agentvars, auxvars>>

\* generate() is suspended at a yield: the frame it yielded last is with the
\* server, and the code up to the next yield has not run
AtYield(r) ==
  \/ pc[r] \in {"steps", "wait", "split"}
  \/ pc[r] = "add_user" /\ new_created[r]
  \/ pc[r] \in {"stream", "save"} /\ frames[r] # <<>>
       /\ frames[r][Len(frames[r])].type = "response"
  \/ pc[r] = "finally" /\ frames[r] # <<>>
       /\ frames[r][Len(frames[r])].type = "error"

\* The caller goes away: the server fails to write the frame and closes the
\* generator, which raises GeneratorExit at the yield where generate() is
\* suspended.  `except Exception` does not catch GeneratorExit, and the yield
\* of the finally clause makes close() fail with RuntimeError; no statement
\* after the suspended yield is run.  The generation thread is not told.
Disconnect(r) ==
  /\ AtYield(r)
  /\ pc' = [pc EXCEPT ![r] = "disconnected"]
  /\ UNCHANGED <<dbvars, user_id, message, conversation_id, given_id,
                 new_created, frames, thinking_steps, step, words,
                 response_content, exc, genvars>>
  /\ UNCHANGED <<lastrowid, http, call, agentvars, auxvars>>

\* ------------------------------------------------------------------------
\* generate_response, the background thread of one request.  The thread only
\* writes the locals of its own generate(); once that generator is closed
\* nothing reads them any more, so its steps are followed up to that point.
\* ------------------------------------------------------------------------
\* lines 167-188 and 191-192: the chain (or, without LangChain, the single
\* response event of the thinking agent) delivers a text, or the call raises
GenInvoke(r) ==
  /\ gpc[r] = "invoke"
  /\ pc[r] # "closed"
  /\ \/ \E raw \in RawResponses :
          /\ full_response' = [full_response EXCEPT ![r] = raw]
          /\ gpc' = [gpc EXCEPT ![r] = "clean"]
          /\ UNCHANGED response_error
     \/ /\ response_error' = [response_error EXCEPT ![r] = LLMError]
        /\ gpc' = [gpc EXCEPT ![r] = "finally"]
        /\ UNCHANGED full_response
  /\ UNCHANGED <<dbvars, reqvars, response_ready>>
  /\ UNCHANGED <<http, call, agentvars, auxvars>>

\* mutant of GenClean: the raw text is left in the result slot
GenClean_skip(r) ==
  /\ gpc[r] = "clean"
  /\ pc[r] # "closed"
  /\ UNCHANGED full_response
  /\ gpc' = [gpc EXCEPT ![r] = "finally"]
  /\ UNCHANGED <<dbvars, reqvars, response_ready, response_error>>
  /\ UNCHANGED <<http, call, agentvars, auxvars>>

\* line 190
GenClean(r) ==
  /\ gpc[r] = "clean"
  /\ pc[r] # "closed"
  /\ full_response' = [full_response EXCEPT ![r] = clean_llm_response(@)]
  /\ gpc' = [gpc EXCEPT ![r] = "finally"]
  /\ UNCHANGED <<dbvars, reqvars, response_ready, response_error>>
  /\ UNCHANGED <<http, call, agentvars, auxvars>>

\* lines 193-194
GenFinally(r) ==
  /\ gpc[r] = "finally"
  /\ pc[r] # "closed"
  /\ response_ready' = [response_ready EXCEPT ![r] = TRUE]
  /\ gpc' = [gpc EXCEPT ![r] = "done"]
  /\ UNCHANGED <<dbvars, reqvars, full_response, response_error>>
  /\ UNCHANGED <<http, call, agentvars, auxvars>>

\* ------------------------------------------------------------------------
\* Conversation model (conversation.py) and the handlers of app.py
\* ------------------------------------------------------------------------
\* add_message: one more row of messages
add_message(rows, id, conv, role, content, by) ==
  Append(rows, MsgRow(id, conv, role, content, 0, by))

\* get_messages: the rows of one conversation
get_messages(rows, conv) ==
  SelectSeq(rows, LAMBDA m : m.conversation_id = conv)

\* update_title: rewrites the title when the user owns the conversation
update_title(convs, conv, user, title, at) ==
  [i \in 1..Len(convs) |->
     IF convs[i].id = conv /\ convs[i].user_id = user
     THEN [convs[i] EXCEPT !.title = title, !.updated_at = at]
     ELSE convs[i]]

\* the UPDATE of add_message (lines 136-139): the conversation of the new
\* row gets the time of the insert
set_updated_at(convs, conv, at) ==
  [i \in 1..Len(convs) |->
     IF convs[i].id = conv THEN [convs[i] EXCEPT !.updated_at = at]
     ELSE convs[i]]

\* generate_title_from_message on the modelled messages: none of them starts
\* with one of the patterns or is longer than fifty characters
generate_title_from_message(m) ==
  CASE m = MsgHi   -> "hi"
    [] m = MsgCode -> "Code"
    [] OTHER       -> ""

HttpResponse(endpoint, status, body) ==
  [endpoint |-> endpoint, status |-> status, body |-> body]

\* the answer of handle_langchain_request / handle_legacy_request
UnifiedText == <<"a", " ", "b">>

\* unified_message (POST /api/message); the model call either returns a text
\* or raises, and an exception is answered with status 500
UnifiedMessage(u, m, c) ==
  /\ Len(messages) + 2 <= MaxMsgs
  /\ c = 0 => conv_seq < MaxConv
  /\ IF m = <<>>
     THEN /\ http' = HttpResponse("/api/message", 400, <<>>)
          /\ call' = NoCall
          /\ UNCHANGED dbvars
     ELSE LET cid    == IF c = 0 THEN conv_seq + 1 ELSE c
              convs1 == IF c = 0
                        THEN Append(conversations,
                                    ConvRow(cid, u, "Conversation <date>",
                                            CURRENT_TIMESTAMP))
                        ELSE conversations
              rows1  == add_message(messages, msg_seq + 1, cid, "user", m, u)
              history == get_messages(rows1, cid)
          IN  /\ conv_seq' = IF c = 0 THEN conv_seq + 1 ELSE conv_seq
              /\ \/ /\ messages' = rows1
                    /\ msg_seq' = msg_seq + 1
                    /\ conversations' = set_updated_at(convs1, cid,
                                                        CURRENT_TIMESTAMP)
                    /\ http' = HttpResponse("/api/message", 500, LLMError)
                    /\ call' = NoCall
                 \/ /\ messages' = add_message(rows1, msg_seq + 2, cid,
                                               "assistant", UnifiedText, u)
                    /\ msg_seq' = msg_seq + 2
                    /\ conversations' =
                         LET convs2 == set_updated_at(convs1, cid,
                                                       CURRENT_TIMESTAMP)
                         IN  IF Len(history) <= 1
                             THEN update_title(convs2, cid, u,
                                               generate_title_from_message(m),
                                               CURRENT_TIMESTAMP)
                             ELSE convs2
                    /\ call' =
                         IF Len(history) <= 1
                         THEN [method |-> "update_title",
                               conversation_id |-> cid, user_id |-> u,
                               result |-> \E i \in 1..Len(convs1) :
                                            /\ convs1[i].id = cid
                                            /\ convs1[i].user_id = u]
                         ELSE NoCall
                    /\ http' = HttpResponse("/api/message", 200, UnifiedText)
  /\ UNCHANGED <<reqvars, genvars, agentvars, auxvars>>

\* streaming_message (POST /api/message/stream).  generate_stream assigns
\* conversation_id without declaring it nonlocal, so its first read of the name
\* raises UnboundLocalError: the body is one error line and the store is not
\* touched.
StreamingMessage(u, m, c) ==
  /\ IF m = <<>>
     THEN http' = HttpResponse("/api/message/stream", 400, <<>>)
     ELSE http' = HttpResponse("/api/message/stream", 200,
                               <<Frame("error", <<"UnboundLocalError">>)>>)
  /\ call' = NoCall
  /\ UNCHANGED <<dbvars, reqvars, genvars, agentvars, auxvars>>

\* ------------------------------------------------------------------------
\* Conversation lifecycle: the title, delete and regenerate endpoints of
\* app.py with the Conversation methods they call
\* ------------------------------------------------------------------------
Titles == {"", "t"}

\* Database.connect opens the connection and issues no PRAGMA foreign_keys,
\* and no other statement of the program does; SQLite then leaves foreign key
\* enforcement off, so the ON DELETE CASCADE clause of table messages is inert
foreign_keys == FALSE

\* `not conv or conv['user_id'] != user_id` is false: the conversation exists
\* and the user owns it
owns(convs, conv, user) ==
  \E i \in 1..Len(convs) : convs[i].id = conv /\ convs[i].user_id = user

Call(method, conv, user, result) ==
  [method |-> method, conversation_id |-> conv, user_id |-> user,
   result |-> result]

\* mutant of UpdateConversationTitle: the title is rewritten for any caller
UpdateConversationTitle_unchecked(u, c, title) ==
  /\ IF title = ""
     THEN /\ http' = HttpResponse("/api/conversations/title", 400, <<>>)
          /\ call' = NoCall
          /\ UNCHANGED conversations
     ELSE /\ conversations' =
               [i \in 1..Len(conversations) |->
                  IF conversations[i].id = c
                  THEN [conversations[i] EXCEPT !.title = title,
                                                !.updated_at = CURRENT_TIMESTAMP]
                  ELSE conversations[i]]
          /\ call' = Call("update_title", c, u, TRUE)
          /\ http' = HttpResponse("/api/conversations/title", 200, <<>>)
  /\ UNCHANGED <<conv_seq, messages, msg_seq, reqvars, genvars, agentvars, auxvars>>

\* update_conversation_title (PUT /api/conversations/<id>/title) with
\* Conversation.update_title
UpdateConversationTitle(u, c, title) ==
  /\ IF title = ""
     THEN /\ http' = HttpResponse("/api/conversations/title", 400, <<>>)
          /\ call' = NoCall
          /\ UNCHANGED conversations
     ELSE LET ok == owns(conversations, c, u)
          IN  /\ conversations' = update_title(conversations, c, u, title,
                                                 CURRENT_TIMESTAMP)
              /\ call' = Call("update_title", c, u, ok)
              /\ http' = HttpResponse("/api/conversations/title",
                                      IF ok THEN 200 ELSE 403, <<>>)
  /\ UNCHANGED <<conv_seq, messages, msg_seq, reqvars, genvars, agentvars, auxvars>>

\* delete_conversation (DELETE /api/conversations/<id>) with
\* Conversation.delete_conversation: one DELETE on table conversations; rows
\* of messages go with it only under foreign key enforcement
DeleteConversation(u, c) ==
  LET ok == owns(conversations, c, u)
  IN  /\ conversations' =
           IF ok THEN SelectSeq(conversations, LAMBDA row : row.id # c)
           ELSE conversations
      /\ messages' =
           IF ok /\ foreign_keys
           THEN SelectSeq(messages, LAMBDA m : m.conversation_id # c)
           ELSE messages
      /\ call' = Call("delete_conversation", c, u, ok)
      /\ http' = HttpResponse("/api/conversations", IF ok THEN 200 ELSE 403,
                              <<>>)
      /\ UNCHANGED <<conv_seq, msg_seq, reqvars, genvars, agentvars, auxvars>>

\* clear_conversation (POST /api/clear): deletes the rows of messages of a
\* conversation of the caller; c = 0 stands for a body without conversation_id
ClearConversation(u, c) ==
  /\ IF c = 0
     THEN /\ http' = HttpResponse("/api/clear", 400, <<>>)
          /\ UNCHANGED messages
     ELSE IF ~owns(conversations, c, u)
     THEN /\ http' = HttpResponse("/api/clear", 403, <<>>)
          /\ UNCHANGED messages
     ELSE /\ messages' = SelectSeq(messages, LAMBDA m : m.conversation_id # c)
          /\ http' = HttpResponse("/api/clear", 200, <<>>)
  /\ call' = NoCall
  /\ UNCHANGED <<conversations, conv_seq, msg_seq, reqvars, genvars,
                 agentvars, auxvars>>

\* the answer of the regenerated model call
RegeneratedText == <<"b">>

\* regenerate_message (POST /api/message/regenerate); c = 0 and mid = 0 stand
\* for a body without conversation_id and without message_id.  The ids handed
\* out stay within MaxMsgs.
RegenerateMessage(u, c, mid) ==
  /\ msg_seq < MaxMsgs
  /\ IF c = 0
     THEN /\ http' = HttpResponse("/api/message/regenerate", 400, <<>>)
          /\ UNCHANGED <<messages, msg_seq, conversations>>
     ELSE IF ~owns(conversations, c, u)
     THEN /\ http' = HttpResponse("/api/message/regenerate", 403, <<>>)
          /\ UNCHANGED <<messages, msg_seq, conversations>>
     ELSE IF ~\E i \in 1..Len(messages) :
                /\ messages[i].conversation_id = c
                /\ messages[i].id < mid
                /\ messages[i].role = "user"
     THEN /\ http' = HttpResponse("/api/message/regenerate", 404, <<>>)
          /\ UNCHANGED <<messages, msg_seq, conversations>>
     ELSE LET rows1 == SelectSeq(messages, LAMBDA m : m.id # mid)
          IN  \/ /\ messages' = rows1
                 /\ http' = HttpResponse("/api/message/regenerate", 500,
                                         LLMError)
                 /\ UNCHANGED <<msg_seq, conversations>>
              \/ /\ messages' = add_message(rows1, msg_seq + 1, c,
                                            "assistant", RegeneratedText, u)
                 /\ msg_seq' = msg_seq + 1
                 /\ conversations' =
                      set_updated_at(conversations, c, CURRENT_TIMESTAMP)
                 /\ http' = HttpResponse("/api/message/regenerate", 200,
                                         RegeneratedText)
  /\ call' = NoCall
  /\ UNCHANGED <<conv_seq, reqvars, genvars, agentvars, auxvars>>

\* ------------------------------------------------------------------------
\* CodeAgent (code_agent.py) and handle_legacy_request (app.py)
\* ------------------------------------------------------------------------
Tasks     == { <<"s", "o", "r", "t">>, <<"h", "e", "a", "p">>, <<>> }
\* the (user, conversation) keys of the requests that reach the agent, which
\* is the one CodeAgent of the process (agents['code'])
Keys      == { <<1, 1>>, <<1, 2>>, <<2, 1>> }
Languages == { <<"p", "y">>, <<" ", "P", "y">>, <<" ">> }

Generation(task, language) == [task |-> task, language |-> language]

\* generate_code: with a language it calls the model and then _clean_response,
\* whose re.sub calls lack the string argument and raise TypeError; without a
\* language it asks for one and remembers the task
generate_code(task, language) ==
  IF language # None
  THEN /\ generation' = Generation(task, language)
       /\ agent_result' = "TypeError"
       /\ UNCHANGED <<pending_language_request, pending_task>>
  ELSE /\ pending_language_request' = TRUE
       /\ pending_task' = task
       /\ generation' = NoGeneration
       /\ agent_result' = "needs_language"

\* generate_code called for a request of key k
GenerateCode(k, task, language) ==
  /\ generate_code(task, language)
  /\ pending_key' = IF language # None THEN pending_key ELSE k
  /\ UNCHANGED <<dbvars, reqvars, genvars, http, call, handled, consumed,
                 auxvars>>

\* handle_language_response called with the message of a request of key k
HandleLanguageResponse(k, language) ==
  /\ IF pending_task # None /\ pending_language_request
     THEN LET task == pending_task
              lang == strip(lower(language))
          IN  /\ IF lang # None
                 THEN /\ generation' = Generation(task, lang)
                      /\ agent_result' = "TypeError"
                      /\ pending_language_request' = FALSE
                      /\ pending_task' = None
                      /\ pending_key' = NoKey
                 ELSE /\ generate_code(task, lang)
                      /\ pending_key' = k
              /\ consumed' = [by |-> k, from |-> pending_key, task |-> task]
     ELSE /\ agent_result' = "no_pending"
          /\ generation' = NoGeneration
          /\ UNCHANGED <<pending_language_request, pending_task, pending_key,
                         consumed>>
  /\ UNCHANGED <<dbvars, reqvars, genvars, http, call, handled, auxvars>>

\* handle_legacy_request: line 280 calls agents['router'].detect(message) for
\* every message; RouterAgent has no such method, so the call raises
\* AttributeError before any agent is asked.  handled records the message and
\* the task that was pending when it arrived.
HandleLegacyRequest(m) ==
  /\ handled' = [message |-> m,
                 pending |-> IF pending_language_request
                             THEN pending_task ELSE None]
  /\ generation' = NoGeneration
  /\ agent_result' = "AttributeError"
  /\ UNCHANGED <<pending_language_request, pending_task, pending_key,
                 consumed>>
  /\ UNCHANGED <<dbvars, reqvars, genvars, http, call, auxvars>>

\* ------------------------------------------------------------------------
\* RouterAgent and LanguageDetectorAgent (router_agent.py) over BaseAgent
\* (base_agent.py)
\* ------------------------------------------------------------------------
Lowers == <<"a", "b", "c", "d", "e", "f", "g", "h", "i", "j", "k", "l",
           "m", "n", "o", "p", "q", "r", "s", "t", "u", "v", "w", "x",
           "y", "z">>
Uppers == <<"A", "B", "C", "D", "E", "F", "G", "H", "I", "J", "K", "L",
           "M", "N", "O", "P", "Q", "R", "S", "T", "U", "V", "W", "X",
           "Y", "Z">>

\* str.upper() and str.lower() on the whole alphabet
str_upper(s) ==
  [i \in 1..Len(s) |->
     IF \E j \in 1..26 : Lowers[j] = s[i]
     THEN Uppers[CHOOSE j \in 1..26 : Lowers[j] = s[i]]
     ELSE s[i]]
str_lower(s) ==
  [i \in 1..Len(s) |->
     IF \E j \in 1..26 : Uppers[j] = s[i]
     THEN Lowers[CHOOSE j \in 1..26 : Uppers[j] = s[i]]
     ELSE s[i]]

\* what the routing model may answer
ClassifierOutputs ==
  { <<"C", "O", "D", "E", "_", "G", "E", "N", "E", "R", "A", "T", "I", "O", "N">>,
    <<"G", "E", "N", "E", "R", "A", "L", "_", "C", "H", "A", "T">>,
    <<" ", "c", "o", "d", "e", "_", "g", "e", "n", "e", "r", "a", "t", "i", "o", "n", " ">>,
    <<"G", "E", "N", "E", "R", "A", "L", "_", "C", "H", "A", "T", " ", "o", "r", " ", "C", "O", "D", "E", "_", "G", "E", "N", "E", "R", "A", "T", "I", "O", "N">>,
    <<"G", "E", "N", "E", "R", "A", "L", "_", "C", "H", "A", "T", ",", " ", "n", "o", " ", "c", "o", "d", "e">>,
    <<>> }

\* what the language detection model may answer
DetectorOutputs ==
  { <<"U", "N", "C", "L", "E", "A", "R">>,
    <<"p", "y", "t", "h", "o", "n">>,
    <<"r", "u", "s", "t">>,
    <<" ", "J", "a", "v", "a", " ">>,
    <<"s", "c", "a", "l", "a">>,
    <<"g", "o", " ", "o", "r", " ", "r", "u", "b", "y">> }

\* the parse of route_request, lines 25-31
route_request(response) ==
  LET response_clean == str_upper(strip(response))
  IN  IF \/ Contains(response_clean, <<"C", "O", "D", "E", "_", "G", "E", "N", "E", "R", "A", "T", "I", "O", "N">>)
         \/ Contains(response_clean, <<"C", "O", "D", "E">>)
      THEN "code" ELSE "chat"

\* language_map, in the order of the dict
language_map ==
  << <<<<"p", "y", "t", "h", "o", "n">>, "python">>,
     <<<<"p", "y">>, "python">>,
     <<<<"j", "a", "v", "a", "s", "c", "r", "i", "p", "t">>, "javascript">>,
     <<<<"j", "s">>, "javascript">>,
     <<<<"t", "y", "p", "e", "s", "c", "r", "i", "p", "t">>, "typescript">>,
     <<<<"t", "s">>, "typescript">>,
     <<<<"j", "a", "v", "a">>, "java">>,
     <<<<"c", "p", "p">>, "cpp">>,
     <<<<"c", "+", "+">>, "cpp">>,
     <<<<"c">>, "c">>,
     <<<<"r", "u", "s", "t">>, "rust">>,
     <<<<"g", "o">>, "go">>,
     <<<<"g", "o", "l", "a", "n", "g">>, "go">>,
     <<<<"r", "u", "b", "y">>, "ruby">>,
     <<<<"p", "h", "p">>, "php">>,
     <<<<"s", "w", "i", "f", "t">>, "swift">>,
     <<<<"k", "o", "t", "l", "i", "n">>, "kotlin">> >>

RECURSIVE FirstMatch(_, _)
\* the loop of lines 78-82: the value of the first key found in the response
FirstMatch(response_clean, i) ==
  IF i > Len(language_map) THEN "UNCLEAR"
  ELSE IF Contains(response_clean, language_map[i][1])
       THEN language_map[i][2]
       ELSE FirstMatch(response_clean, i + 1)

\* the parse of detect_language, lines 54-82
detect_language(response) == FirstMatch(str_lower(strip(response)), 1)

Prompts == {"p", "q", "w"}
Turn(prompt, response) ==
  << [role |-> "user", content |-> prompt],
     [role |-> "assistant", content |-> response] >>

Routing(method, response, result, before) ==
  [method |-> method, response |-> response, result |-> result,
   before |-> before]

\* BaseAgent.generate_response called on the routing agent outside a routing
\* call: the exchange is appended to conversation_history unless the model
\* call raises
GenerateResponse(prompt) ==
  /\ Len(conversation_history) < MaxMsgs
  /\ \/ conversation_history' = conversation_history \o Turn(prompt, "r")
     \/ UNCHANGED conversation_history
  /\ routed' = NoRouting
  /\ UNCHANGED <<dbvars, reqvars, genvars, http, call, agentvars, now,
                 ordervars, limitvars>>

\* the history a routing call leaves: it sets the history aside, empties it
\* and calls generate_response; the assignment that restores it is the next
\* statement, which is not reached when the call raises
AfterRouting(raised) == IF raised THEN <<>> ELSE conversation_history

\* RouterAgent.route_request
RouteRequest(prompt) ==
  /\ \/ \E response \in ClassifierOutputs :
          /\ conversation_history' = AfterRouting(FALSE)
          /\ routed' = Routing("route_request", response,
                               route_request(response), conversation_history)
     \/ /\ conversation_history' = AfterRouting(TRUE)
        /\ routed' = Routing("route_request", None, "raise",
                             conversation_history)
  /\ UNCHANGED <<dbvars, reqvars, genvars, http, call, agentvars, now,
                 ordervars, limitvars>>

\* LanguageDetectorAgent.detect_language
DetectLanguage(prompt) ==
  /\ \/ \E response \in DetectorOutputs :
          /\ conversation_history' = AfterRouting(FALSE)
          /\ routed' = Routing("detect_language", response,
                               detect_language(response), conversation_history)
     \/ /\ conversation_history' = AfterRouting(TRUE)
        /\ routed' = Routing("detect_language", None, "raise",
                             conversation_history)
  /\ UNCHANGED <<dbvars, reqvars, genvars, http, call, agentvars, now,
                 ordervars, limitvars>>

\* ------------------------------------------------------------------------
\* Order of the rows get_messages returns (conversation.py, lines 126-155)
\* ------------------------------------------------------------------------
\* The clock has the resolution of CURRENT_TIMESTAMP and datetime('now'):
\* several rows can be inserted within one second.

\* a second passes
Tick ==
  /\ now < MaxMsgs
  /\ now' = now + 1
  /\ UNCHANGED <<dbvars, reqvars, genvars, http, call, agentvars, routervars,
                 ordervars, limitvars>>

\* add_message (or one of the INSERTs of stream_chat) on the conversation:
\* the row gets the next id and created_at = the current second
AppendMessage ==
  /\ Len(msg_log) < MaxMsgs
  /\ msg_log' = Append(msg_log, [id |-> Len(msg_log) + 1, created_at |-> now])
  /\ fetched' = <<>>
  /\ UNCHANGED <<dbvars, reqvars, genvars, http, call, agentvars, routervars,
                 now, limitvars>>

\* ORDER BY created_at ASC: the orders a SELECT may return the rows in.  Rows
\* with equal created_at have no order among them: the statement names no
\* second sort key.
OrderByCreatedAt(rows) ==
  { [i \in 1..Len(rows) |-> rows[f[i]]] : f \in
      { g \in Permutations(1..Len(rows)) :
          \A i, j \in 1..Len(rows) :
            i < j => rows[g[i]].created_at <= rows[g[j]].created_at } }

\* get_messages on the conversation
GetMessages ==
  /\ msg_log # <<>>
  /\ \E rows \in OrderByCreatedAt(msg_log) :
       fetched' = [i \in 1..Len(rows) |-> rows[i].id]
  /\ UNCHANGED <<dbvars, reqvars, genvars, http, call, agentvars, routervars,
                 now, msg_log, limitvars>>

\* ------------------------------------------------------------------------
\* check_rate_limit (middleware/auth.py) as the routes of routes/auth.py call
\* it
\* ------------------------------------------------------------------------
RATE_LIMIT_ENABLED == TRUE

\* max_attempts and window of the call sites, scaled down from 5 in 300 s
\* (login) and 3 in 3600 s (register)
Limits ==
  [k \in LimitKeys |->
     IF k = "login" THEN [max_attempts |-> 2, window |-> 2]
     ELSE [max_attempts |-> 1, window |-> 3]]

Check(key, at, result) == [key |-> key, at |-> at, result |-> result]

\* mutant of CheckRateLimit: a rejected call records its time as well
CheckRateLimit_records(key) ==
  LET max_attempts == Limits[key].max_attempts
      window       == Limits[key].window
      kept == SelectSeq(rate_limit_store[key], LAMBDA t : now - t < window)
  IN  /\ IF ~RATE_LIMIT_ENABLED
         THEN /\ allowed' = Check(key, now, TRUE)
              /\ granted' = [granted EXCEPT ![key] = Append(@, now)]
              /\ UNCHANGED rate_limit_store
         ELSE IF Len(kept) >= max_attempts
         THEN /\ rate_limit_store' = [rate_limit_store EXCEPT ![key] = Append(kept, now)]
              /\ allowed' = Check(key, now, FALSE)
              /\ UNCHANGED granted
         ELSE /\ rate_limit_store' =
                   [rate_limit_store EXCEPT ![key] = Append(kept, now)]
              /\ granted' = [granted EXCEPT ![key] = Append(@, now)]
              /\ allowed' = Check(key, now, TRUE)
      /\ UNCHANGED <<dbvars, reqvars, genvars, http, call, agentvars,
                     routervars, now, ordervars>>

\* check_rate_limit(key, max_attempts, window) at time now; granted keeps the
\* times of the calls that returned True
CheckRateLimit(key) ==
  LET max_attempts == Limits[key].max_attempts
      window       == Limits[key].window
      kept == SelectSeq(rate_limit_store[key], LAMBDA t : now - t < window)
  IN  /\ IF ~RATE_LIMIT_ENABLED
         THEN /\ allowed' = Check(key, now, TRUE)
              /\ granted' = [granted EXCEPT ![key] = Append(@, now)]
              /\ UNCHANGED rate_limit_store
         ELSE IF Len(kept) >= max_attempts
         THEN /\ rate_limit_store' = [rate_limit_store EXCEPT ![key] = kept]
              /\ allowed' = Check(key, now, FALSE)
              /\ UNCHANGED granted
         ELSE /\ rate_limit_store' =
                   [rate_limit_store EXCEPT ![key] = Append(kept, now)]
              /\ granted' = [granted EXCEPT ![key] = Append(@, now)]
              /\ allowed' = Check(key, now, TRUE)
      /\ UNCHANGED <<dbvars, reqvars, genvars, http, call, agentvars,
                     routervars, now, ordervars>>

Stepping ==
  \/ \E r \in Reqs : CreateConversation(r)
  \/ \E r \in Reqs : AddUserMessage(r)
  \/ \E r \in Reqs : ThinkingStart(r)
  \/ \E r \in Reqs : ThinkingStep(r)
  \/ \E r \in Reqs : WaitResponse(r)
  \/ \E r \in Reqs : SplitResponse(r)
  \/ \E r \in Reqs : StreamWord(r)
  \/ \E r \in Reqs : SaveResponse(r)
  \/ \E r \in Reqs : StreamError(r)
  \/ \E r \in Reqs : StreamDone(r)
  \/ \E r \in Reqs : GenInvoke(r)
  \/ \E r \in Reqs : GenClean(r)
  \/ \E r \in Reqs : GenFinally(r)

Next ==
  \/ \E r \in Solo, u \in Users, m \in StreamMessages, c \in 0..MaxConv :
       StreamChat(r, u, m, c)
  \/ Stepping

Spec == Init /\ [][Next]_vars

\* One stream from its request to its end.  The server keeps resuming
\* generate() while the client reads, so the controller's steps are weakly
\* fair; nothing is assumed of the generation thread.
ControllerStep(r) ==
  \/ CreateConversation(r) \/ AddUserMessage(r) \/ ThinkingStart(r)
  \/ ThinkingStep(r) \/ WaitResponse(r) \/ SplitResponse(r)
  \/ StreamWord(r) \/ SaveResponse(r) \/ StreamError(r) \/ StreamDone(r)

NextLive ==
  \/ \E u \in Users, m \in Messages, c \in 0..MaxConv :
       pc[1] = "idle" /\ StreamChat(1, u, m, c)
  \/ Stepping

SpecLive == Init /\ [][NextLive]_vars /\ WF_vars(ControllerStep(1))

\* One stream whose caller may go away at any frame
NextDisc ==
  \/ \E u \in Users, m \in Messages, c \in 0..MaxConv :
       pc[1] = "idle" /\ StreamChat(1, u, m, c)
  \/ Stepping
  \/ Disconnect(1)

SpecDisc == Init /\ [][NextDisc]_vars

\* One stream of user 1 and messages posted to /api/message, as seconds pass
NextTouch ==
  \/ \E c \in 0..MaxConv : pc[1] = "idle" /\ StreamChat(1, 1, MsgHi, c)
  \/ Stepping
  \/ UnifiedMessage(1, MsgHi, 0)
  \/ Tick

SpecTouch == Init /\ [][NextTouch]_vars

\* The handlers of app.py on the store
NextHttp ==
  \/ \E u \in Users, m \in Messages, c \in 0..MaxConv : UnifiedMessage(u, m, c)
  \/ \E u \in Users, m \in Messages, c \in 0..MaxConv : StreamingMessage(u, m, c)

SpecHttp == Init /\ [][NextHttp]_vars

\* The lifecycle of stored conversations: user 1 posts messages through
\* unified_message; either user edits titles, regenerates replies and deletes
\* conversations, so that user 2 is the caller who owns nothing
NextStore ==
  \/ \E c \in 0..MaxConv : UnifiedMessage(1, MsgHi, c)
  \/ \E u \in Users, c \in 0..MaxConv, t \in Titles :
       UpdateConversationTitle(u, c, t)
  \/ \E u \in Users, c \in 0..MaxConv : DeleteConversation(u, c)
  \/ \E u \in Users, c \in 0..MaxConv, mid \in 0..MaxMsgs :
       RegenerateMessage(u, c, mid)

SpecStore == Init /\ [][NextStore]_vars

\* The routing agents: exchanges accumulate in the history, routing calls
\* are made in between
NextRouter ==
  \/ \E p \in Prompts : GenerateResponse(p)
  \/ \E p \in Prompts : RouteRequest(p)
  \/ \E p \in Prompts : DetectLanguage(p)

SpecRouter == Init /\ [][NextRouter]_vars

\* Appends to one conversation and reads of it, as seconds pass
NextOrder ==
  \/ Tick
  \/ AppendMessage
  \/ GetMessages

SpecOrder == Init /\ [][NextOrder]_vars

\* Calls of check_rate_limit for the two keys as seconds pass
NextLimit ==
  \/ Tick
  \/ \E key \in LimitKeys : CheckRateLimit(key)

SpecLimit == Init /\ [][NextLimit]_vars

\* The code agent and the legacy handler on their own
NextAgent ==
  \/ \E k \in Keys, t \in Tasks, l \in Languages \cup {None} :
       GenerateCode(k, t, l)
  \/ \E k \in Keys, l \in Languages \cup Tasks :
       HandleLanguageResponse(k, l)
  \/ \E m \in Languages \cup Tasks : HandleLegacyRequest(m)

SpecAgent == Init /\ [][NextAgent]_vars

\* The code agent beside the store: user 1 opens conversation 1, requests of
\* the keys reach the agent, and conversations are cleared and deleted
NextPending ==
  \/ UnifiedMessage(1, MsgHi, 0)
  \/ \E k \in Keys : GenerateCode(k, <<"s", "o", "r", "t">>, None)
  \/ \E k \in Keys : HandleLanguageResponse(k, <<"p", "y">>)
  \/ \E u \in Users, c \in 0..MaxConv : DeleteConversation(u, c)
  \/ \E u \in Users, c \in 0..MaxConv : ClearConversation(u, c)

SpecPending == Init /\ [][NextPending]_vars

\* Two streams in flight together: user 1 opens a conversation and, having
\* received its id, sends the next message while the first is still running.
NextConc ==
  \/ pc[1] = "idle" /\ StreamChat(1, 1, MsgHi, 0)
  \/ pc[2] = "idle" /\ new_created[1] /\ StreamChat(2, 1, MsgHi, conversation_id[1])
  \/ Stepping

SpecConc == Init /\ [][NextConc]_vars

\* ------------------------------------------------------------------------
\* Stream properties
\* ------------------------------------------------------------------------
Idx(r)      == 1..Len(frames[r])
TypeAt(r, i) == frames[r][i].type
Count(r, t) == Cardinality({i \in Idx(r) : TypeAt(r, i) = t})
Closed(r)   == pc[r] = "closed"
Succeeded(r) == Closed(r) /\ Count(r, "error") = 0

\* the content of the response fragments of stream r, in emission order
Fragments(r) ==
  LET fs == SelectSeq(frames[r], LAMBDA f : f.type = "response")
  IN  [i \in 1..Len(fs) |-> fs[i].content]

\* the assistant row written by the stream now in slot r, if any
AssistantRows(r) ==
  {i \in 1..Len(messages) :
     /\ messages[i].id = lastrowid[r]
     /\ messages[i].role = "assistant"
     /\ pc[r] \in {"finally", "closed"}}

TerminalShape(r) ==
  LET n == Len(frames[r])
  IN  /\ n >= 1
      /\ TypeAt(r, n) = "done"
      /\ Count(r, "done") = 1
      /\ Count(r, "error") = (IF exc[r] # None THEN 1 ELSE 0)
      /\ \A i \in Idx(r) : TypeAt(r, i) = "error" => i = n - 1

C3_ThinkingBeforeResponse ==
  \A r \in Reqs : \A i \in Idx(r) :
    TypeAt(r, i) = "response" =>
      \E j, k \in 1..(i - 1) :
        /\ j < k
        /\ TypeAt(r, j) = "thinking_start"
        /\ TypeAt(r, k) = "thinking_complete"

\* C3 witness: a stream has emitted a response fragment
C3_Witness ==
  \E r \in Reqs : Count(r, "response") >= 1 /\ pc[r] = "stream"

\* phases of a successful stream as the claim orders them
PhaseClaimed(t) ==
  CASE t = "thinking_start"    -> 1
    [] t = "thinking_step"     -> 2
    [] t = "thinking_complete" -> 3
    [] t = "response"          -> 4
    [] t = "metadata"          -> 5
    [] t = "done"              -> 6
    [] OTHER                   -> 0

\* phases of a successful stream as the controller emits them
PhaseEmitted(t) ==
  CASE t = "metadata"          -> 0
    [] t = "thinking_start"    -> 1
    [] t = "thinking_step"     -> 2
    [] t = "thinking_complete" -> 3
    [] t = "response"          -> 4
    [] t = "done"              -> 5
    [] OTHER                   -> 6

Ordered(r, Phase(_)) ==
  \A i, j \in Idx(r) : i < j => Phase(TypeAt(r, i)) <= Phase(TypeAt(r, j))

\* C4 as stated: a successful stream is thinking_start, thinking_step*,
\* thinking_complete, response*, metadata, done, with the metadata frame after
\* the last fragment and never before thinking_start.
C4_MetadataBeforeDone ==
  \A r \in Reqs :
    Succeeded(r) =>
      /\ Ordered(r, PhaseClaimed)
      /\ Count(r, "thinking_start") = 1
      /\ Count(r, "thinking_complete") = 1
      /\ Count(r, "metadata") = 1
      /\ Count(r, "done") = 1

\* C4 (amended): a successful stream is thinking_start, thinking_step*,
\* thinking_complete, response*, done; a metadata frame is emitted only when
\* the request created a new conversation, and then once, as the first frame,
\* before thinking_start; none is emitted between the fragments and done.
C4_MetadataFirst ==
  \A r \in Reqs :
    Succeeded(r) =>
      /\ Ordered(r, PhaseEmitted)
      /\ Count(r, "thinking_start") = 1
      /\ Count(r, "thinking_complete") = 1
      /\ Count(r, "metadata") = (IF given_id[r] = 0 THEN 1 ELSE 0)
      /\ Count(r, "done") = 1

\* C4 witness: a successful stream that created its conversation and streamed
\* fragments
C4_Witness ==
  \E r \in Reqs : Succeeded(r) /\ given_id[r] = 0 /\ Count(r, "response") >= 2

\* C5 as stated: the fragments of a stream, concatenated, are exactly the
\* stored assistant text.
C5_FragmentsEqualStored ==
  \A r \in Reqs : \A i \in AssistantRows(r) :
    Concat(Fragments(r)) = messages[i].content

\* C5 (amended): the stored assistant text is the concatenation of the
\* fragments without its final blank: every fragment ends with a blank, and
\* the concatenation is the stored text followed by exactly one blank.
C5_FragmentsStripped ==
  \A r \in Reqs : \A i \in AssistantRows(r) :
    /\ messages[i].content = strip(Concat(Fragments(r)))
    /\ Concat(Fragments(r)) = messages[i].content \o <<" ">>

\* C5 witness: a stream stored an assistant message of several words
C5_Witness ==
  \E r \in Reqs : \E i \in AssistantRows(r) :
    Closed(r) /\ Len(Fragments(r)) >= 3

\* C6: when the generation thread has failed, the stream has one error frame
\* with the thread's error, no response fragment and no assistant row.
C6_GenerationFailure ==
  \A r \in Reqs :
    (Closed(r) /\ response_error[r] # None) =>
      /\ Count(r, "error") = 1
      /\ \A i \in Idx(r) :
           TypeAt(r, i) = "error" => frames[r][i].content = response_error[r]
      /\ Count(r, "response") = 0
      /\ AssistantRows(r) = {}

\* the conversation a request named exists and belongs to somebody else
Foreign(r) ==
  /\ given_id[r] # 0
  /\ get_by_id(given_id[r]).user_id \notin {0, user_id[r]}

\* C7: a request that names another user's conversation emits no frame, and
\* no row of that conversation was written by anybody but its owner.
C7_ForeignConversationRejected ==
  /\ \A r \in Reqs : (pc[r] # "idle" /\ Foreign(r)) => frames[r] = <<>>
  /\ \A i \in 1..Len(messages) :
       LET owner == get_by_id(messages[i].conversation_id).user_id
       IN  owner # 0 => messages[i].by = owner

RowsOf(r, role) ==
  {i \in 1..Len(messages) : messages[i].req = r /\ messages[i].role = role}

\* C8: of two streams on one conversation, the one whose user message was
\* appended first has its assistant message appended before any message of
\* the other: no row of the second lies between its user and assistant rows,
\* and its assistant row precedes the second's.
C8_AppendOrder ==
  \A r1, r2 \in Reqs :
    (r1 # r2 /\ conversation_id[r1] = conversation_id[r2]) =>
      \A u1 \in RowsOf(r1, "user"), u2 \in RowsOf(r2, "user") :
        u1 < u2 =>
          /\ \A a1 \in RowsOf(r1, "assistant") : a1 < u2
          /\ \A a1 \in RowsOf(r1, "assistant"),
                a2 \in RowsOf(r2, "assistant") : a1 < a2

\* C9: a streaming request with an empty message emits no frame and creates
\* neither a conversation nor a message row.
C9_EmptyRejected ==
  /\ \A r \in Reqs :
       (pc[r] # "idle" /\ message[r] = <<>>) =>
         frames[r] = <<>> /\ ~new_created[r]
  /\ \A i \in 1..Len(messages) : messages[i].content # <<>>

\* C10: when a message arrives while the code agent waits for a language, the
\* handler generates with the pending task and that message as language.
C10_AnswerUsesPendingTask ==
  (agent_result = "AttributeError" /\ handled.pending # None) =>
    generation = Generation(handled.pending, handled.message)

\* ------------------------------------------------------------------------
\* Generation and the ready signal
\* ------------------------------------------------------------------------
LastType(r) == IF frames[r] = <<>> THEN "" ELSE TypeAt(r, Len(frames[r]))

\* C14: a stream whose generation thread has not signalled ready when the
\* controller reaches its wait still ends, whatever the thread does from then
\* on (it may never take another step), and a stream that ended without the
\* signal ended with its terminal frame.
C14_StalledGenerationTerminates ==
  /\ \A r \in Solo : []((pc[r] = "wait" /\ ~response_ready[r]) => <>Closed(r))
  /\ [](\A r \in Reqs : (Closed(r) /\ ~response_ready[r]) => LastType(r) = "done")

\* C14 witness: a stream has ended although its generation thread never got
\* past the model call
C14_Witness ==
  \E r \in Reqs : /\ Closed(r) /\ gpc[r] = "invoke" /\ ~response_ready[r]
                  /\ LastType(r) = "done"

\* C15: a stream that emitted thinking_complete and done without an error
\* frame had the ready signal of its generation: the controller never goes on
\* as after a success while the result is not there.
C15_NoSuccessWithoutResult ==
  \A r \in Reqs :
    ( /\ Count(r, "thinking_complete") >= 1
      /\ Count(r, "done") >= 1
      /\ Count(r, "error") = 0 ) => response_ready[r]

\* C16: a stream whose generation ended without error and with an empty
\* cleaned text carries exactly one error frame.
C16_EmptyOutputFails ==
  \A r \in Reqs :
    ( /\ Closed(r)
      /\ gpc[r] = "done"
      /\ response_error[r] = None
      /\ full_response[r] = <<>> ) => Count(r, "error") = 1

\* the text a stream sends and stores for a cleaned response: its words, each
\* followed by one blank
Rendered(text) ==
  LET ws == split(text)
  IN  Concat([i \in 1..Len(ws) |-> ws[i] \o <<" ">>])

IsPrefix(s, t) == Len(s) <= Len(t) /\ SubSeq(t, 1, Len(s)) = s

\* C17: what a stream has sent in response fragments is the beginning of a
\* cleaned response of the model, and what it has stored is a whole cleaned
\* response: never a text read from the result slot before the thread was
\* done with it.
C17_OnlyCleanedText ==
  \A r \in Reqs :
    /\ \E raw \in RawResponses :
         IsPrefix(Concat(Fragments(r)), Rendered(clean_llm_response(raw)))
    /\ \A i \in AssistantRows(r) :
         \E raw \in RawResponses :
           messages[i].content = strip(Rendered(clean_llm_response(raw)))

\* the texts clean_llm_response can deliver
Cleaned == {clean_llm_response(raw) : raw \in RawResponses}

\* C18: the ready signal of a request is set exactly when its generation
\* thread has run to its end, on the failure path as on the success path, and
\* then either the error slot is populated and the result slot was never
\* written, or the error slot is empty and the result slot holds the cleaned
\* text.
C18_ReadyAtEndOfThread ==
  \A r \in Reqs :
    /\ response_ready[r] <=> gpc[r] = "done"
    /\ gpc[r] = "done" =>
         IF response_error[r] # None
         THEN full_response[r] = <<>>
         ELSE full_response[r] \in Cleaned

\* C18 witness: of two requests, the thread of one has ended in failure and
\* the thread of the other with a text the cleaning has changed
C18_Witness ==
  \E r1, r2 \in Reqs :
    /\ response_ready[r1] /\ response_error[r1] # None
    /\ response_ready[r2] /\ response_error[r2] = None
    /\ full_response[r2] = <<"a", " ", "a", " ", " ", "b">>

\* C19: when the controller is about to emit thinking_start the generation
\* thread has been started, and the frame can be emitted whatever the state of
\* the generation is; no check of the ready signal and no wait comes before
\* it, so every stream in its thinking steps or its wait has already emitted
\* the frame.
C19_ThinkingStartImmediate ==
  \A r \in Reqs :
    /\ pc[r] = "thinking_start" =>
         /\ gpc[r] # "none"
         /\ ENABLED ThinkingStart(r)
    /\ pc[r] \in {"steps", "wait"} => Count(r, "thinking_start") = 1

\* C19 witness: thinking_start is the frame just emitted and the model call
\* of the generation thread has not returned
C19_Witness ==
  \E r \in Reqs :
    /\ pc[r] = "steps" /\ LastType(r) = "thinking_start"
    /\ gpc[r] = "invoke" /\ ~response_ready[r]

\* C20: when the caller has gone away after the generation thread was
\* started, and the thread has delivered a response with words in it, the
\* last row of messages is the assistant reply of that stream.
C20_DisconnectedReplyStored ==
  \A r \in Reqs :
    ( /\ pc[r] = "disconnected"
      /\ gpc[r] = "done"
      /\ response_error[r] = None
      /\ split(full_response[r]) # <<>> ) =>
        /\ messages # <<>>
        /\ messages[Len(messages)].role = "assistant"
        /\ messages[Len(messages)].req = r

\* ------------------------------------------------------------------------
\* Store properties
\* ------------------------------------------------------------------------
\* the ids of the assistant rows of conversation c
AssistantIds(rows, c) ==
  {rows[i].id : i \in {j \in 1..Len(rows) :
                         rows[j].conversation_id = c /\ rows[j].role = "assistant"}}

\* C11: every regenerate request leaves the number of messages of its
\* conversation as it was, and a request that is answered with a new reply has
\* removed exactly one assistant message and appended exactly one.
C11_RegenerateKeepsCount ==
  [][\A u \in Users, c \in 1..MaxConv, mid \in 0..MaxMsgs :
       RegenerateMessage(u, c, mid) =>
         /\ Len(get_messages(messages', c)) = Len(get_messages(messages, c))
         /\ http'.status = 200 =>
              /\ Cardinality(AssistantIds(messages, c)
                               \ AssistantIds(messages', c)) = 1
              /\ Cardinality(AssistantIds(messages', c)
                               \ AssistantIds(messages, c)) = 1]_vars

\* C12: when delete_conversation has returned True for a conversation, no row
\* of messages carries that conversation id.
C12_DeleteCascades ==
  [][\A u \in Users, c \in 0..MaxConv :
       (DeleteConversation(u, c) /\ call'.result) =>
         get_messages(messages', c) = <<>>]_vars

\* C13: update_title and delete_conversation called by a user who does not
\* own the conversation, or for an id that names no conversation, return False
\* and change no row of conversations and no row of messages.
C13_NonOwnerRejected ==
  [][\A u \in Users, c \in 0..MaxConv, t \in Titles \ {""} :
       ( /\ UpdateConversationTitle(u, c, t) \/ DeleteConversation(u, c)
         /\ ~owns(conversations, c, u) ) =>
           /\ call'.result = FALSE
           /\ UNCHANGED dbvars]_vars

\* C13 witness: a user who is not the owner was refused on a conversation
\* that exists and holds messages
C13_Witness ==
  /\ call.method \in {"update_title", "delete_conversation"}
  /\ call.result = FALSE
  /\ get_by_id(call.conversation_id).id # 0
  /\ get_by_id(call.conversation_id).user_id # call.user_id
  /\ get_messages(messages, call.conversation_id) # <<>>
  /\ http.status = 403

\* ------------------------------------------------------------------------
\* Clarification state
\* ------------------------------------------------------------------------
\* C21: a pending task is only ever taken up by a message of the (user,
\* conversation) whose request left it pending, never by a message of another
\* conversation or another user.
C21_PendingScopedPerKey ==
  consumed.by = consumed.from

\* C22: every call of handle_language_response made while the agent awaits a
\* language calls the model with the stored task and leaves the agent idle:
\* pending_language_request false and pending_task cleared.
C22_AnswerResolvesPending ==
  [][\A k \in Keys, l \in Languages \cup Tasks :
       (pending_language_request /\ HandleLanguageResponse(k, l)) =>
         /\ generation'.task = pending_task
         /\ generation'.language # None
         /\ ~pending_language_request'
         /\ pending_task' = None]_vars

\* C23: when a conversation is deleted or cleared by its owner while a task
\* of that (user, conversation) is pending, the agent no longer awaits a
\* language afterwards.
C23_ClearDiscardsPending ==
  [][\A u \in Users, c \in 1..MaxConv :
       ( /\ pending_language_request
         /\ pending_key = <<u, c>>
         /\ \/ DeleteConversation(u, c) /\ call'.result
            \/ ClearConversation(u, c) /\ http'.status = 200 ) =>
           /\ ~pending_language_request'
           /\ pending_task' = None]_vars

\* ------------------------------------------------------------------------
\* Routing
\* ------------------------------------------------------------------------
NamesCategory(response, name) == Contains(str_upper(response), name)

\* the classifier output names the code category and not the chat category
NamesCodeAlone(response) ==
  /\ NamesCategory(response, <<"C", "O", "D", "E", "_", "G", "E", "N", "E", "R", "A", "T", "I", "O", "N">>)
  /\ ~NamesCategory(response, <<"G", "E", "N", "E", "R", "A", "L", "_", "C", "H", "A", "T">>)

\* C24: route_request returns 'code' or 'chat', and it returns 'chat' for
\* every classifier output that does not name the code category alone.
C24_AmbiguousRoutesToChat ==
  (routed.method = "route_request" /\ routed.result # "raise") =>
    /\ routed.result \in {"code", "chat"}
    /\ ~NamesCodeAlone(routed.response) => routed.result = "chat"

\* the languages a response names: the values of the keys of language_map
\* that are words of the response
NamedLanguages(response) ==
  {language_map[i][2] : i \in {j \in 1..Len(language_map) :
     \E w \in 1..Len(split(str_lower(response))) :
       split(str_lower(response))[w] = language_map[j][1]}}

\* C25: detect_language returns 'UNCLEAR' for every response that names no
\* supported language, and otherwise a language the response names.
C25_UnclearUnlessNamed ==
  (routed.method = "detect_language" /\ routed.result # "raise") =>
    IF NamedLanguages(routed.response) = {}
    THEN routed.result = "UNCLEAR"
    ELSE routed.result \in NamedLanguages(routed.response)

\* C26: after route_request or detect_language has returned or raised, the
\* agent's conversation_history is what it was before the call.
C26_RoutingKeepsHistory ==
  routed.method # "" => conversation_history = routed.before

\* ------------------------------------------------------------------------
\* Timestamps and order
\* ------------------------------------------------------------------------
\* C27: every append of a message sets updated_at of its conversation to the
\* time of the append: no stored message is newer than its conversation.
C27_AppendTouchesConversation ==
  \A i \in 1..Len(messages) :
    get_by_id(messages[i].conversation_id).id # 0 =>
      get_by_id(messages[i].conversation_id).updated_at
        >= messages[i].created_at

\* C28: get_messages returns the messages of a conversation in the order
\* they were appended, also when several of them share one created_at.
C28_AppendOrder ==
  fetched # <<>> => fetched = [i \in 1..Len(msg_log) |-> msg_log[i].id]

\* C29: regenerate_message deletes no message of another conversation: every
\* row it removes is in the conversation of the request, which the caller
\* owns, and has role assistant.
C29_RegenerateDeletesOwnAssistant ==
  [][\A u \in Users, c \in 0..MaxConv, mid \in 0..MaxMsgs :
       RegenerateMessage(u, c, mid) =>
         \A i \in 1..Len(messages) :
           (~\E j \in 1..Len(messages') : messages'[j].id = messages[i].id) =>
             /\ messages[i].conversation_id = c
             /\ messages[i].role = "assistant"]_vars

\* ------------------------------------------------------------------------
\* Rate limiting
\* ------------------------------------------------------------------------
\* C30: for every key, any max_attempts + 1 calls that returned True span at
\* least window (so at most max_attempts return True within a shorter span),
\* and the store holds only times of calls that returned True: the latest of
\* them, a rejected call having recorded nothing.
C30_AtMostMaxAttemptsPerWindow ==
  \A key \in LimitKeys :
    /\ \A i \in 1..Len(granted[key]) :
         i + Limits[key].max_attempts <= Len(granted[key]) =>
           granted[key][i + Limits[key].max_attempts] - granted[key][i]
             >= Limits[key].window
    /\ Len(rate_limit_store[key]) <= Len(granted[key])
    /\ rate_limit_store[key] =
         SubSeq(granted[key],
                Len(granted[key]) - Len(rate_limit_store[key]) + 1,
                Len(granted[key]))

\* a login is refused after the window has rolled over once: more calls
\* than max_attempts were granted in all, and the latest is rejected
C30_Witness ==
  /\ allowed = Check("login", now, FALSE)
  /\ Len(granted["login"]) > Limits["login"].max_attempts
  /\ Len(rate_limit_store["login"]) = Limits["login"].max_attempts

====
